---- MODULE Spec2Model ----
(***************************************************************************)
(* Model of src/src/wsproto.rs: the WebSocket opcode and close-code tables *)
(* (OpCode <-> u8, CloseCode <-> u16), the base64 encoder encode_base64    *)
(* and the accept-key derivation hash_key.                                 *)
(*                                                                         *)
(* Text is represented as the sequence of its ASCII codes ('=' is 61).     *)
(* OpCode variants are strings; CloseCode variants are tuples, <<"Normal">>*)
(* for a named variant and <<"Other", n>> for Other(n).                    *)
(***************************************************************************)
EXTENDS Integers, Sequences, FiniteSets, TLC

VARIABLES
    pc,                \* position of the current call: idle, running steps, done, panic
    call,              \* the function being called
    arg,               \* its argument
    ret,               \* its return value (once pc = "done")
    orig,              \* <<v>> when arg is the result of converting v, else <<>>
    debug_assertions,  \* build configuration: cfg(debug_assertions)
    seed,              \* which 20-byte function the digest primitive is
    hashed,            \* bytes fed to the hasher so far
    data,              \* encode_base64: the input slice
    encoded,           \* encode_base64: the output buffer
    in_pos,            \* encode_base64: elements consumed from in_iter
    out_pos            \* encode_base64: elements consumed from out_iter

vars == <<pc, call, arg, ret, orig, debug_assertions, seed, hashed,
          data, encoded, in_pos, out_pos>>

encVars == <<data, encoded, in_pos, out_pos>>

\* ------------------------------------------------------------------ bounds
MaxLen == 4        \* longest input given to encode_base64 directly
MaxKeyLen == 2     \* longest client key given to hash_key
NumBytes == 2      \* number of sampled byte values besides 0x66 and 0x6F
NumSeeds == 3      \* number of digest functions considered

ByteSet == {102, 111} \cup {(i * 255) % 256 : i \in 0..(NumBytes - 1)}

RECURSIVE SeqsUpTo(_, _)
SeqsUpTo(S, n) ==
    IF n = 0 THEN {<<>>}
    ELSE LET shorter == SeqsUpTo(S, n - 1)
         IN shorter \cup {Append(s, b) : s \in {t \in shorter : Len(t) = n - 1}, b \in S}

U8 == 0..255
U16 == 0..65535

\* --------------------------------------------------------------- OpCode
OpCode == {"Continue", "Text", "Binary", "Close", "Ping", "Pong", "Bad"}

PANIC == -1

\* impl Into<u8> for OpCode; debug_assert!(false) panics when
\* debug_assertions is on and is compiled out otherwise.
OpCodeIntoBadIsContinue(x, dbg) ==
    CASE x = "Continue" -> 0
      [] x = "Text"     -> 1
      [] x = "Binary"   -> 2
      [] x = "Close"    -> 8
      [] x = "Ping"     -> 9
      [] x = "Pong"     -> 10
      [] x = "Bad"      -> IF dbg THEN PANIC ELSE 0

OpCodeIntoU8(x, dbg) ==
    CASE x = "Continue" -> 0
      [] x = "Text"     -> 1
      [] x = "Binary"   -> 2
      [] x = "Close"    -> 8
      [] x = "Ping"     -> 9
      [] x = "Pong"     -> 10
      [] x = "Bad"      -> IF dbg THEN PANIC ELSE 8

\* impl From<u8> for OpCode
OpCodeFromLowNibble(byte) ==
    CASE byte % 16 = 0  -> "Continue"
      [] byte % 16 = 1  -> "Text"
      [] byte % 16 = 2  -> "Binary"
      [] byte % 16 = 8  -> "Close"
      [] byte % 16 = 9  -> "Ping"
      [] byte % 16 = 10 -> "Pong"
      [] OTHER          -> "Bad"

OpCodeFromPingPongSwapped(byte) ==
    CASE byte = 0  -> "Continue"
      [] byte = 1  -> "Text"
      [] byte = 2  -> "Binary"
      [] byte = 8  -> "Close"
      [] byte = 9  -> "Pong"
      [] byte = 10 -> "Ping"
      [] OTHER     -> "Bad"

OpCodeFromU8(byte) ==
    CASE byte = 0  -> "Continue"
      [] byte = 1  -> "Text"
      [] byte = 2  -> "Binary"
      [] byte = 8  -> "Close"
      [] byte = 9  -> "Ping"
      [] byte = 10 -> "Pong"
      [] OTHER     -> "Bad"

\* ------------------------------------------------------------ CloseCode
NamedCloseCode ==
    {<<"Normal">>, <<"Away">>, <<"Protocol">>, <<"Unsupported">>, <<"Status">>,
     <<"Abnormal">>, <<"Invalid">>, <<"Policy">>, <<"Size">>, <<"Extension">>,
     <<"Error">>, <<"Restart">>, <<"Again">>, <<"Tls">>, <<"Empty">>}

Other(code) == <<"Other", code>>

CloseCode == NamedCloseCode \cup {Other(code) : code \in U16}

\* impl Into<u16> for CloseCode
CloseCodeIntoStatus1004(x) ==
    CASE x[1] = "Normal"      -> 1000
      [] x[1] = "Away"        -> 1001
      [] x[1] = "Protocol"    -> 1002
      [] x[1] = "Unsupported" -> 1003
      [] x[1] = "Status"      -> 1004
      [] x[1] = "Abnormal"    -> 1006
      [] x[1] = "Invalid"     -> 1007
      [] x[1] = "Policy"      -> 1008
      [] x[1] = "Size"        -> 1009
      [] x[1] = "Extension"   -> 1010
      [] x[1] = "Error"       -> 1011
      [] x[1] = "Restart"     -> 1012
      [] x[1] = "Again"       -> 1013
      [] x[1] = "Tls"         -> 1015
      [] x[1] = "Empty"       -> 0
      [] x[1] = "Other"       -> x[2]

CloseCodeIntoU16(x) ==
    CASE x[1] = "Normal"      -> 1000
      [] x[1] = "Away"        -> 1001
      [] x[1] = "Protocol"    -> 1002
      [] x[1] = "Unsupported" -> 1003
      [] x[1] = "Status"      -> 1005
      [] x[1] = "Abnormal"    -> 1006
      [] x[1] = "Invalid"     -> 1007
      [] x[1] = "Policy"      -> 1008
      [] x[1] = "Size"        -> 1009
      [] x[1] = "Extension"   -> 1010
      [] x[1] = "Error"       -> 1011
      [] x[1] = "Restart"     -> 1012
      [] x[1] = "Again"       -> 1013
      [] x[1] = "Tls"         -> 1015
      [] x[1] = "Empty"       -> 0
      [] x[1] = "Other"       -> x[2]

\* impl From<u16> for CloseCode
CloseCodeFromNoTls(code) ==
    CASE code = 1000 -> <<"Normal">>
      [] code = 1001 -> <<"Away">>
      [] code = 1002 -> <<"Protocol">>
      [] code = 1003 -> <<"Unsupported">>
      [] code = 1005 -> <<"Status">>
      [] code = 1006 -> <<"Abnormal">>
      [] code = 1007 -> <<"Invalid">>
      [] code = 1008 -> <<"Policy">>
      [] code = 1009 -> <<"Size">>
      [] code = 1010 -> <<"Extension">>
      [] code = 1011 -> <<"Error">>
      [] code = 1012 -> <<"Restart">>
      [] code = 1013 -> <<"Again">>
      [] code = 0    -> <<"Empty">>
      [] OTHER       -> Other(code)

CloseCodeFromU16(code) ==
    CASE code = 1000 -> <<"Normal">>
      [] code = 1001 -> <<"Away">>
      [] code = 1002 -> <<"Protocol">>
      [] code = 1003 -> <<"Unsupported">>
      [] code = 1005 -> <<"Status">>
      [] code = 1006 -> <<"Abnormal">>
      [] code = 1007 -> <<"Invalid">>
      [] code = 1008 -> <<"Policy">>
      [] code = 1009 -> <<"Size">>
      [] code = 1010 -> <<"Extension">>
      [] code = 1011 -> <<"Error">>
      [] code = 1012 -> <<"Restart">>
      [] code = 1013 -> <<"Again">>
      [] code = 1015 -> <<"Tls">>
      [] code = 0    -> <<"Empty">>
      [] OTHER       -> Other(code)

\* ------------------------------------------------- accept key and base64
\* static WS_GUID, as_bytes(): "258EAFA5-E914-47DA-95CA-C5AB0DC85B11"
WS_GUID ==
    <<50, 53, 56, 69, 65, 70, 65, 53, 45, 69, 57, 49, 52, 45, 52, 55, 68, 65,
      45, 57, 53, 67, 65, 45, 67, 53, 65, 66, 48, 68, 67, 56, 53, 66, 49, 49>>

\* static BASE64: "ABCDEFGHIJKLMNOPQRSTUVWXYZabcdefghijklmnopqrstuvwxyz0123456789+/"
BASE64 ==
    <<65, 66, 67, 68, 69, 70, 71, 72, 73, 74, 75, 76, 77, 78, 79, 80, 81, 82,
      83, 84, 85, 86, 87, 88, 89, 90, 97, 98, 99, 100, 101, 102, 103, 104, 105,
      106, 107, 108, 109, 110, 111, 112, 113, 114, 115, 116, 117, 118, 119,
      120, 121, 122, 48, 49, 50, 51, 52, 53, 54, 55, 56, 57, 43, 47>>

\* b'='
PadChar == 61

\* The digest primitive (sha1 crate) is outside the repository: it is a
\* deterministic function from the bytes fed to it to DigestLen bytes.  The
\* seed selects one function of a family, so nothing rests on one digest.
DigestLen == 20

RECURSIVE Absorb(_, _)
Absorb(h, bytes) ==
    IF bytes = <<>> THEN h
    ELSE Absorb((h * 31 + Head(bytes) + 1) % 65521, Tail(bytes))

Digest(s, bytes) ==
    LET h == Absorb(s + 1, bytes)
    IN [j \in 1..DigestLen |->
            ((h + s) * (2 * j - 1) + (h \div 256) * j + j * j) % 256]

\* hasher.update(bytes): incremental hashing appends to the hashed message
Sha1Update(state, bytes) == state \o bytes

\* the arguments of the two hasher.update calls of hash_key, in call order
UpdateArgsGuidFirst(k) == <<WS_GUID, k>>

UpdateArgs(k) == <<k, WS_GUID>>

\* u32 operators.  Every operand below is built from bytes shifted by at most
\* 16, so values stay under 2^24 and no u32 wrap-around can occur.
Shl(x, n) == x * (2 ^ n)
Shr(x, n) == x \div (2 ^ n)

RECURSIVE BitAnd(_, _)
BitAnd(a, b) ==
    IF a = 0 \/ b = 0 THEN 0
    ELSE (a % 2) * (b % 2) + 2 * BitAnd(a \div 2, b \div 2)

RECURSIVE BitOr(_, _)
BitOr(a, b) ==
    IF a = 0 THEN b
    ELSE IF b = 0 THEN a
    ELSE (IF a % 2 = 1 \/ b % 2 = 1 THEN 1 ELSE 0) + 2 * BitOr(a \div 2, b \div 2)

\* vec![b'='; (len + 2) / 3 * 4]
EncodedLenFloor(len) == (len \div 3) * 4

EncodedLenExtraGroup(len) == (len \div 3 + 1) * 4

EncodedLen(len) == ((len + 2) \div 3) * 4

\* data[i] with Rust's 0-based index and bounds check
Index(d, i) == IF i >= 0 /\ i < Len(d) THEN d[i + 1] ELSE PANIC

\* let enc = |val| BASE64[val as usize];
Enc(val) == IF val >= 0 /\ val < Len(BASE64) THEN BASE64[val + 1] ELSE PANIC

\* let mut write = |val| *out_iter.next().unwrap() = val;
\* A writer is [buf, pos, ok]; ok turns FALSE when a step panics.
Write(w, val) ==
    IF ~w.ok \/ val = PANIC \/ w.pos >= Len(w.buf)
    THEN [w EXCEPT !.ok = FALSE]
    ELSE [buf |-> [w.buf EXCEPT ![w.pos + 1] = val], pos |-> w.pos + 1, ok |-> TRUE]

\* let g24 = one << 16 | two << 8 | three;
G24Swapped(one, two, three) == BitOr(BitOr(Shl(three, 16), Shl(two, 8)), one)

G24(one, two, three) == BitOr(BitOr(Shl(one, 16), Shl(two, 8)), three)

\* the body of the while-let loop: four writes for one 3-byte group
WriteGroup(w, g24) ==
    Write(Write(Write(Write(w,
        Enc(BitAnd(Shr(g24, 18), 63))),
        Enc(BitAnd(Shr(g24, 12), 63))),
        Enc(BitAnd(Shr(g24, 6), 63))),
        Enc(BitAnd(g24, 63)))

\* match mod_len { 1 => ..., 2 => ..., _ => () }
WriteTailTwoOnly(w, d) ==
    LET len == Len(d)
        mod_len == len % 3
    IN CASE mod_len = 1 ->
              LET b == Index(d, len - 1)
                  pad == Shl(b, 16)
              IN IF b = PANIC THEN [w EXCEPT !.ok = FALSE]
                 ELSE Write(Write(w,
                        Enc(BitAnd(Shr(pad, 18), 63))),
                        Enc(BitAnd(Shr(pad, 12), 63)))
         [] mod_len = 2 ->
              LET b0 == Index(d, len - 2)
                  b1 == Index(d, len - 1)
                  pad == BitOr(Shl(b0, 16), Shl(b1, 8))
              IN IF b0 = PANIC \/ b1 = PANIC THEN [w EXCEPT !.ok = FALSE]
                 ELSE Write(Write(w,
                        Enc(BitAnd(Shr(pad, 18), 63))),
                        Enc(BitAnd(Shr(pad, 12), 63)))
         [] OTHER -> w

WriteTail(w, d) ==
    LET len == Len(d)
        mod_len == len % 3
    IN CASE mod_len = 1 ->
              LET b == Index(d, len - 1)
                  pad == Shl(b, 16)
              IN IF b = PANIC THEN [w EXCEPT !.ok = FALSE]
                 ELSE Write(Write(w,
                        Enc(BitAnd(Shr(pad, 18), 63))),
                        Enc(BitAnd(Shr(pad, 12), 63)))
         [] mod_len = 2 ->
              LET b0 == Index(d, len - 2)
                  b1 == Index(d, len - 1)
                  pad == BitOr(Shl(b0, 16), Shl(b1, 8))
              IN IF b0 = PANIC \/ b1 = PANIC THEN [w EXCEPT !.ok = FALSE]
                 ELSE Write(Write(Write(w,
                        Enc(BitAnd(Shr(pad, 18), 63))),
                        Enc(BitAnd(Shr(pad, 12), 63))),
                        Enc(BitAnd(Shr(pad, 6), 63)))
         [] OTHER -> w

\* String::from_utf8(encoded): every byte below 128 is valid UTF-8; a byte of
\* 128 or more is valid only inside a multi-byte sequence, which the buffer,
\* made of BASE64 symbols and '=', never holds.
IsUtf8(buf) == \A i \in 1..Len(buf) : buf[i] < 128

\* ---------------------------------------------------------------- state
\* no call is in progress; the build is a debug or a release build
Idle ==
    /\ pc = "idle"
    /\ call = "none"
    /\ arg = <<>>
    /\ ret = <<>>
    /\ orig = <<>>
    /\ debug_assertions \in BOOLEAN
    /\ hashed = <<>>
    /\ data = <<>>
    /\ encoded = <<>>
    /\ in_pos = 0
    /\ out_pos = 0

\* the code tables never reach the digest
InitCodes == Idle /\ seed = 0

InitB64 == Idle /\ seed \in 0..(NumSeeds - 1)

\* Each conversion is called on a fresh input (orig = <<>>), or on the value
\* the opposite conversion has just returned (orig remembers what that value
\* was converted from).

\* let byte: u8 = opcode.into();
DoOpCodeInto(x, o) ==
    LET r == OpCodeIntoU8(x, debug_assertions)
    IN /\ call' = "OpCode::into"
       /\ arg' = x
       /\ ret' = r
       /\ orig' = o
       /\ pc' = IF r = PANIC THEN "panic" ELSE "done"
       /\ UNCHANGED <<debug_assertions, seed, hashed, encVars>>

OpCodeInto ==
    \/ pc = "idle" /\ \E x \in OpCode : DoOpCodeInto(x, <<>>)
    \/ pc = "done" /\ call = "OpCode::from" /\ DoOpCodeInto(ret, <<arg>>)

\* OpCode::from(byte)
DoOpCodeFrom(byte, o) ==
    /\ call' = "OpCode::from"
    /\ arg' = byte
    /\ ret' = OpCodeFromU8(byte)
    /\ orig' = o
    /\ pc' = "done"
    /\ UNCHANGED <<debug_assertions, seed, hashed, encVars>>

OpCodeFrom ==
    \/ pc = "idle" /\ \E byte \in U8 : DoOpCodeFrom(byte, <<>>)
    \/ pc = "done" /\ call = "OpCode::into" /\ DoOpCodeFrom(ret, <<arg>>)

\* let code: u16 = closecode.into();
DoCloseCodeInto(x, o) ==
    /\ call' = "CloseCode::into"
    /\ arg' = x
    /\ ret' = CloseCodeIntoU16(x)
    /\ orig' = o
    /\ pc' = "done"
    /\ UNCHANGED <<debug_assertions, seed, hashed, encVars>>

CloseCodeInto ==
    \/ pc = "idle" /\ \E x \in CloseCode : DoCloseCodeInto(x, <<>>)
    \/ pc = "done" /\ call = "CloseCode::from" /\ DoCloseCodeInto(ret, <<arg>>)

\* CloseCode::from(code)
DoCloseCodeFrom(code, o) ==
    /\ call' = "CloseCode::from"
    /\ arg' = code
    /\ ret' = CloseCodeFromU16(code)
    /\ orig' = o
    /\ pc' = "done"
    /\ UNCHANGED <<debug_assertions, seed, hashed, encVars>>

CloseCodeFrom ==
    \/ pc = "idle" /\ \E code \in U16 : DoCloseCodeFrom(code, <<>>)
    \/ pc = "done" /\ call = "CloseCode::into" /\ DoCloseCodeFrom(ret, <<arg>>)

\* the call has returned; the caller goes on to its next call
Return ==
    /\ pc = "done"
    /\ pc' = "idle"
    /\ call' = "none"
    /\ arg' = <<>>
    /\ ret' = <<>>
    /\ orig' = <<>>
    /\ hashed' = <<>>
    /\ data' = <<>>
    /\ encoded' = <<>>
    /\ in_pos' = 0
    /\ out_pos' = 0
    /\ UNCHANGED <<debug_assertions, seed>>

\* encode_base64, lines 209-215: len, mod_len, the pre-filled buffer and the
\* two iterators.  data[..len - mod_len] panics if the range end exceeds len.
EncodeBegin(d) ==
    LET len == Len(d)
        mod_len == len % 3
    IN /\ data' = d
       /\ encoded' = [i \in 1..EncodedLen(len) |-> PadChar]
       /\ in_pos' = 0
       /\ out_pos' = 0
       /\ pc' = IF len - mod_len < 0 \/ len - mod_len > len THEN "panic" ELSE "enc_loop"

\* encode_base64(data) called directly
EncodeCall ==
    \E d \in SeqsUpTo(ByteSet, MaxLen) :
        /\ pc = "idle"
        /\ call' = "encode_base64"
        /\ arg' = d
        /\ EncodeBegin(d)
        /\ UNCHANGED <<ret, orig, debug_assertions, seed, hashed>>

\* number of elements of in_iter, the iterator over data[..len - mod_len]
InLen == Len(data) - (Len(data) % 3)

\* one iteration of the while-let loop: three elements are available
EncodeGroup ==
    /\ pc = "enc_loop"
    /\ InLen - in_pos >= 3
    /\ LET g24 == G24(data[in_pos + 1], data[in_pos + 2], data[in_pos + 3])
           w == WriteGroup([buf |-> encoded, pos |-> out_pos, ok |-> TRUE], g24)
       IN /\ encoded' = w.buf
          /\ out_pos' = w.pos
          /\ pc' = IF w.ok THEN "enc_loop" ELSE "panic"
    /\ in_pos' = in_pos + 3
    /\ UNCHANGED <<call, arg, ret, orig, debug_assertions, seed, hashed, data>>

\* the while-let pattern fails: one of the three next() calls returned None
\* (each call still consumed an element when there was one)
EncodeLoopExit ==
    /\ pc = "enc_loop"
    /\ InLen - in_pos < 3
    /\ in_pos' = InLen
    /\ pc' = "enc_tail"
    /\ UNCHANGED <<call, arg, ret, orig, debug_assertions, seed, hashed,
                   data, encoded, out_pos>>

\* the match on mod_len, then String::from_utf8(encoded).unwrap()
EncodeTail ==
    /\ pc = "enc_tail"
    /\ LET w == WriteTail([buf |-> encoded, pos |-> out_pos, ok |-> TRUE], data)
       IN /\ encoded' = w.buf
          /\ out_pos' = w.pos
          /\ IF w.ok /\ IsUtf8(w.buf)
             THEN pc' = "done" /\ ret' = w.buf
             ELSE pc' = "panic" /\ ret' = ret
    /\ UNCHANGED <<call, arg, orig, debug_assertions, seed, hashed, data, in_pos>>

\* hash_key(key): let mut hasher = sha1::Sha1::new();
HashKeyCall ==
    \E k \in SeqsUpTo(ByteSet, MaxKeyLen) :
        /\ pc = "idle"
        /\ call' = "hash_key"
        /\ arg' = k
        /\ hashed' = <<>>
        /\ pc' = "hk_new"
        /\ UNCHANGED <<ret, orig, debug_assertions, seed, encVars>>

\* hasher.update(key);
HashUpdateKey ==
    /\ pc = "hk_new"
    /\ hashed' = Sha1Update(hashed, UpdateArgs(arg)[1])
    /\ pc' = "hk_key"
    /\ UNCHANGED <<call, arg, ret, orig, debug_assertions, seed, encVars>>

\* hasher.update(WS_GUID.as_bytes());
HashUpdateGuid ==
    /\ pc = "hk_key"
    /\ hashed' = Sha1Update(hashed, UpdateArgs(arg)[2])
    /\ pc' = "hk_guid"
    /\ UNCHANGED <<call, arg, ret, orig, debug_assertions, seed, encVars>>

\* encode_base64(&hasher.digest().bytes()): the digest is taken, then the
\* encoder is entered with it
HashDigest ==
    /\ pc = "hk_guid"
    /\ EncodeBegin(Digest(seed, hashed))
    /\ UNCHANGED <<call, arg, ret, orig, debug_assertions, seed, hashed>>

NextCodes ==
    \/ OpCodeInto
    \/ OpCodeFrom
    \/ CloseCodeInto
    \/ CloseCodeFrom
    \/ Return

NextB64 ==
    \/ EncodeCall
    \/ EncodeGroup
    \/ EncodeLoopExit
    \/ EncodeTail
    \/ HashKeyCall
    \/ HashUpdateKey
    \/ HashUpdateGuid
    \/ HashDigest
    \/ Return

SpecCodes == InitCodes /\ [][NextCodes]_vars

SpecB64 == InitB64 /\ [][NextB64]_vars

\* ------------------------------------------------------------ properties
\* RFC 4648, section 4, stated on bits: the input is a bit string, cut into
\* 6-bit groups (the last one completed with zero bits), each group names a
\* symbol of Table 1, and '=' completes the text to a multiple of 4 symbols.
Bits8(b) == [i \in 1..8 |-> (b \div (2 ^ (8 - i))) % 2]

RECURSIVE BitString(_)
BitString(bytes) ==
    IF bytes = <<>> THEN <<>> ELSE Bits8(Head(bytes)) \o BitString(Tail(bytes))

ZeroPad(bits) == bits \o [i \in 1..((6 - (Len(bits) % 6)) % 6) |-> 0]

Sextet(bits, k) ==
    LET b(i) == bits[6 * (k - 1) + i]
    IN 32 * b(1) + 16 * b(2) + 8 * b(3) + 4 * b(4) + 2 * b(5) + b(6)

Rfc4648Symbol(v) ==
    CASE v < 26 -> 65 + v
      [] v >= 26 /\ v < 52 -> 97 + (v - 26)
      [] v >= 52 /\ v < 62 -> 48 + (v - 52)
      [] v = 62 -> 43
      [] v = 63 -> 47

Rfc4648Alphabet == {Rfc4648Symbol(v) : v \in 0..63}

Rfc4648Encode(bytes) ==
    LET bits == ZeroPad(BitString(bytes))
        n == Len(bits) \div 6
    IN [k \in 1..n |-> Rfc4648Symbol(Sextet(bits, k))]
         \o [i \in 1..((4 - (n % 4)) % 4) |-> 61]

CeilDiv3(n) == CHOOSE q \in 0..n : 3 * q >= n /\ 3 * (q - 1) < n

Returned(f) == pc = "done" /\ call = f

\* C1: encode_base64 returns exactly the RFC 4648 standard-alphabet encoding
\* with '=' padding of its input, for every input; in particular [0x66] gives
\* "Zg==", [0x66,0x6F] gives "Zm8=" and [0x66,0x6F,0x6F] gives "Zm9v".
C1_EncodeIsRfc4648 ==
    Returned("encode_base64") =>
        /\ ret = Rfc4648Encode(arg)
        /\ arg = <<102>> => ret = <<90, 103, 61, 61>>
        /\ arg = <<102, 111>> => ret = <<90, 109, 56, 61>>
        /\ arg = <<102, 111, 111>> => ret = <<90, 109, 57, 118>>

\* a full group followed by one leftover byte: "foof" encodes to "Zm9vZg=="
C1_Witness ==
    /\ Returned("encode_base64")
    /\ arg = <<102, 111, 111, 102>>
    /\ ret = <<90, 109, 57, 118, 90, 103, 61, 61>>

\* C2: for an input of length n the text returned by encode_base64 has length
\* exactly ceil(n/3)*4, a multiple of 4.
C2_EncodedLength ==
    Returned("encode_base64") =>
        /\ Len(ret) = CeilDiv3(Len(arg)) * 4
        /\ Len(ret) % 4 = 0

C2_Witness ==
    /\ Returned("encode_base64")
    /\ Len(arg) = 3
    /\ Len(ret) = 4

\* C3: for every client key, hash_key returns 28 characters, the last one '='
\* and the first 27 all alphabet symbols.
C3_AcceptKeyShape ==
    Returned("hash_key") =>
        /\ Len(ret) = 28
        /\ ret[28] = 61
        /\ \A i \in 1..27 : ret[i] \in Rfc4648Alphabet /\ ret[i] # 61

C3_Witness ==
    /\ Returned("hash_key")
    /\ arg = <<>>
    /\ Len(data) = 20
    /\ Len(ret) = 28

\* C4: hash_key(k) is encode_base64(digest(k ++ GUID)): the hasher is fed the
\* client key first and the GUID second, and the digest of that whole message
\* is what the encoder works on from its first step.
C4_AcceptKeyIsDigestOfKeyThenGuid ==
    /\ Returned("hash_key") => ret = Rfc4648Encode(Digest(seed, arg \o WS_GUID))
    /\ (call = "hash_key" /\ pc \in {"enc_loop", "enc_tail", "done"}) =>
          /\ hashed = arg \o WS_GUID
          /\ data = Digest(seed, arg \o WS_GUID)

C4_Witness ==
    /\ Returned("hash_key")
    /\ Len(arg) = MaxKeyLen
    /\ hashed = arg \o WS_GUID
    /\ hashed # WS_GUID \o arg

\* C5: encode_base64 never panics: no slice, index, buffer write or alphabet
\* lookup is out of bounds, and the empty input yields the empty text.
C5_EncodeIsTotal ==
    /\ pc # "panic"
    /\ in_pos <= Len(data)
    /\ out_pos <= Len(encoded)
    /\ (Returned("encode_base64") /\ arg = <<>>) => ret = <<>>

\* two leftover bytes: three symbols written, the last slot left as padding
C5_Witness ==
    /\ Returned("encode_base64")
    /\ Len(arg) % 3 = 2
    /\ out_pos = Len(encoded) - 1

ValidWire == {0, 1, 2, 8, 9, 10}

\* C6: each of Continue, Text, Binary, Close, Ping, Pong converts to its wire
\* byte 0, 1, 2, 8, 9, 10 and that byte converts back to the same variant;
\* Bad does not come back as Bad.
C6_OpCodeRoundTrip ==
    /\ (Returned("OpCode::into") /\ arg # "Bad") =>
          ret = [Continue |-> 0, Text |-> 1, Binary |-> 2,
                 Close |-> 8, Ping |-> 9, Pong |-> 10][arg]
    /\ (Returned("OpCode::from") /\ orig # <<>>) =>
          IF orig[1] = "Bad" THEN ret # "Bad" ELSE ret = orig[1]

C6_Witness ==
    /\ Returned("OpCode::from")
    /\ orig = <<"Pong">>
    /\ arg = 10
    /\ ret = "Pong"

\* C7: OpCode::from(n) is Bad exactly for the bytes n outside {0,1,2,8,9,10},
\* and it returns a variant for every byte.
C7_OpCodeFromBad ==
    Returned("OpCode::from") =>
        /\ ret \in OpCode
        /\ arg \notin ValidWire <=> ret = "Bad"

C7_Witness ==
    /\ Returned("OpCode::from")
    /\ arg = 255
    /\ ret = "Bad"

IsCloseCode(v) ==
    \/ v \in NamedCloseCode
    \/ Len(v) = 2 /\ v[1] = "Other" /\ v[2] \in U16

ReturnsTyped ==
    /\ Returned("OpCode::into") => ret \in U8
    /\ Returned("OpCode::from") => ret \in OpCode
    /\ Returned("CloseCode::into") => ret \in U16
    /\ Returned("CloseCode::from") => IsCloseCode(ret)

\* C8 as stated: the four conversions never panic and return a value for
\* every input, OpCode to u8 of Bad returning 8.
C8_Original ==
    /\ pc # "panic"
    /\ ReturnsTyped
    /\ (call = "OpCode::into" /\ arg = "Bad") => (pc = "done" /\ ret = 8)

\* C8 (amended): the conversions return a value for every input and never
\* panic, except OpCode to u8 of Bad, which panics in a build with debug
\* assertions and returns the Close value 8 in a build without them.
C8_TotalExceptBadInDebug ==
    /\ pc = "panic" => (call = "OpCode::into" /\ arg = "Bad" /\ debug_assertions)
    /\ ReturnsTyped
    /\ (call = "OpCode::into" /\ arg = "Bad") =>
          IF debug_assertions THEN pc = "panic" ELSE pc = "done" /\ ret = 8

C8_Witness ==
    /\ Returned("OpCode::into")
    /\ arg = "Bad"
    /\ ~debug_assertions
    /\ ret = 8

NamedWire == {CloseCodeIntoU16(x) : x \in NamedCloseCode}

\* C9: a named CloseCode, or Other(n) with n not the wire value of a named
\* variant, converted to u16 and back is itself; for such n,
\* CloseCode::from(n) is Other(n) and the wire value of Other(n) is n.
C9_CloseCodeRoundTrip ==
    /\ (Returned("CloseCode::from") /\ orig # <<>>) =>
          ((orig[1] \in NamedCloseCode \/ orig[1][2] \notin NamedWire)
              => ret = orig[1])
    /\ (Returned("CloseCode::from") /\ arg \notin NamedWire) => ret = Other(arg)
    /\ (Returned("CloseCode::into") /\ arg[1] = "Other") => ret = arg[2]

C9_Witness ==
    /\ Returned("CloseCode::from")
    /\ orig = <<Other(1004)>>
    /\ arg = 1004
    /\ ret = Other(1004)

WireValues16 == (1000..1013) \cup {1015, 0}

WireValues15 == WireValues16 \ {1004}

\* C10 as stated: the named variants' wire values are exactly 1000..1013,
\* 1015 and 0, and each of those decodes to a named variant.
C10_Original ==
    /\ (Returned("CloseCode::into") /\ arg \in NamedCloseCode) => ret \in WireValues16
    /\ (Returned("CloseCode::from") /\ arg \in WireValues16) => ret \in NamedCloseCode

\* C10 (amended): the named variants' wire values are exactly the 15 values
\* 1000..1003, 1005..1013, 1015 and 0; each of them decodes to a named variant
\* whose wire value it is; 1004 belongs to no named variant and decodes to
\* Other(1004).
C10_NamedWireValues ==
    /\ (Returned("CloseCode::into") /\ arg \in NamedCloseCode) => ret \in WireValues15
    /\ (Returned("CloseCode::from") /\ arg \in WireValues15) => ret \in NamedCloseCode
    /\ (Returned("CloseCode::into") /\ orig # <<>>) =>
          (orig[1] \in WireValues15 => (arg \in NamedCloseCode /\ ret = orig[1]))
    /\ (Returned("CloseCode::from") /\ arg = 1004) => ret = Other(1004)

C10_Witness ==
    /\ Returned("CloseCode::into")
    /\ orig = <<1005>>
    /\ arg = <<"Status">>
    /\ ret = 1005

====
